---- MODULE Spec2Model ----
(***************************************************************************)
(* A model of src/app.py: the daily sitemap crawl (fetch_updated_urls),    *)
(* the dated CSV record (save_results_to_csv), the Bluesky post with its   *)
(* byte-addressed facets (post_update_to_bluesky) and the run (main).      *)
(*                                                                         *)
(* A Python str is a sequence of code points, a bytes object a sequence of *)
(* numbers 0..255, and None is the value None below.  A date is its day    *)
(* number counted from 1970-01-01.                                         *)
(***************************************************************************)
EXTENDS Integers, Sequences, FiniteSets, TLC

VARIABLES
    pc,            \* position of the run
    today,         \* the wall clock's date, datetime.now().date()
    environ,       \* os.environ: BLUESKY_HANDLE, BLUESKY_APP_PASSWORD, GITHUB_REPOSITORY
    web,           \* what the sitemap host and Bluesky answer in this run
    config,        \* main's config dict
    sitemap_urls,  \* fetch_updated_urls: the child sitemaps read from the index
    requested,     \* the URLs requests.get was called with, in order
    found_urls,    \* the match set
    csv_filepath,  \* what save_results_to_csv returned
    files,         \* the file system: path -> content
    sent,          \* the calls of client.send_post: [text, facets]
    log,           \* the log records written, in order
    exc            \* the exception that left main, or None

vars == << pc, today, environ, web, config, sitemap_urls, requested, found_urls,
           csv_filepath, files, sent, log, exc >>

\* ------------------------------------------------------------------ bounds

\* The day the run starts (2025-06-01).
FirstDay == 20240
\* How many times midnight may pass during a run.
MaxMidnights == 1
\* Code points of a page URL, and the longest page URL.
MaxUrlLen == 2
\* The largest match set (11 gives a two-digit count of others).
MaxMatches == 11
\* GITHUB_REPOSITORY values: a short one and the lengths MinRepoLen..MaxRepoLen,
\* which bring the post's overhead from below to above the byte limit.
ShortRepoLen == 3
MinRepoLen == 170
MaxRepoLen == 185
\* Child sitemaps in the index, and <url> entries in a child.
MaxChildren == 2
MaxEntries == 2
\* Rows handed to save_results_to_csv.
MaxRows == 2

\* ------------------------------------------------------------ Python values

None == << -1 >>

\* bool(v) of a str or None
Truthy(v) == v # None /\ v # << >>

Min(a, b) == IF a < b THEN a ELSE b
Max(a, b) == IF a > b THEN a ELSE b

\* b[:k], k possibly negative
SliceTo(b, k) ==
    IF k >= 0 THEN SubSeq(b, 1, Min(k, Len(b)))
              ELSE SubSeq(b, 1, Max(Len(b) + k, 0))

\* str(n) of n >= 0
RECURSIVE Str(_)
Str(n) == IF n < 10 THEN << 48 + n >> ELSE Str(n \div 10) \o << 48 + (n % 10) >>

\* n zero-padded to w digits (strftime's %d, %m, %Y)
RECURSIVE Pad(_, _)
Pad(n, w) == IF Len(Str(n)) >= w THEN Str(n) ELSE << 48 >> \o Pad(n, w - 1)

\* c * n
Repeat(c, n) == [i \in 1..n |-> c]

\* ------------------------------------------------------------------- UTF-8

\* chr(c).encode('utf-8')
Utf8Char(c) ==
    IF c < 128 THEN << c >>
    ELSE IF c < 2048 THEN << 192 + (c \div 64), 128 + (c % 64) >>
    ELSE IF c < 65536 THEN
        << 224 + (c \div 4096), 128 + ((c \div 64) % 64), 128 + (c % 64) >>
    ELSE << 240 + (c \div 262144), 128 + ((c \div 4096) % 64),
            128 + ((c \div 64) % 64), 128 + (c % 64) >>

\* s.encode('utf-8'): the characters' encodings in order.  ASCII text is its
\* own encoding; other text is halved so that the evaluation stays shallow.
RECURSIVE Encode(_)
Encode(s) ==
    IF \A i \in 1..Len(s) : s[i] < 128 THEN s
    ELSE IF Len(s) = 1 THEN Utf8Char(s[1])
    ELSE LET h == Len(s) \div 2 IN
             Encode(SubSeq(s, 1, h)) \o Encode(SubSeq(s, h + 1, Len(s)))

\* The length the lead byte b announces, 0 when b cannot start a character.
SeqLen(b) ==
    IF b < 128 THEN 1
    ELSE IF b >= 194 /\ b <= 223 THEN 2
    ELSE IF b >= 224 /\ b <= 239 THEN 3
    ELSE IF b >= 240 /\ b <= 244 THEN 4
    ELSE 0

IsCont(b) == b >= 128 /\ b <= 191

\* The second byte's range depends on the lead byte (no overlong form, no
\* surrogate, nothing above U+10FFFF).
SecondOk(lead, b) ==
    IF lead = 224 THEN b >= 160 /\ b <= 191
    ELSE IF lead = 237 THEN b >= 128 /\ b <= 159
    ELSE IF lead = 240 THEN b >= 144 /\ b <= 191
    ELSE IF lead = 244 THEN b >= 128 /\ b <= 143
    ELSE IsCont(b)

\* Whether a well-formed character starts at b[i] and lies within b.
CharAt(b, i) ==
    LET n == SeqLen(b[i]) IN
        /\ n > 0
        /\ i + n - 1 <= Len(b)
        /\ n >= 2 => SecondOk(b[i], b[i + 1])
        /\ \A k \in 2..(n - 1) : IsCont(b[i + k])

CodePoint(b, i) ==
    LET n == SeqLen(b[i]) IN
        IF n = 1 THEN b[i]
        ELSE IF n = 2 THEN (b[i] - 192) * 64 + (b[i + 1] - 128)
        ELSE IF n = 3 THEN
            (b[i] - 224) * 4096 + (b[i + 1] - 128) * 64 + (b[i + 2] - 128)
        ELSE (b[i] - 240) * 262144 + (b[i + 1] - 128) * 4096
                 + (b[i + 2] - 128) * 64 + (b[i + 3] - 128)

\* Whether b.decode('utf-8') succeeds (no UnicodeDecodeError).
RECURSIVE DecodesFrom(_, _)
DecodesFrom(b, i) ==
    IF i > Len(b) THEN TRUE
    ELSE CharAt(b, i) /\ DecodesFrom(b, i + SeqLen(b[i]))

Decodes(b) == DecodesFrom(b, 1)

\* b.decode('utf-8') of bytes that decode: one code point for each byte that
\* starts a character
Decode(b) ==
    LET starts == {i \in 1..Len(b) : ~IsCont(b[i])}
    IN  [n \in 1..Cardinality(starts) |->
            CodePoint(b, CHOOSE i \in starts : Cardinality({j \in starts : j <= i}) = n)]

\* ------------------------------------------------------------------- dates

\* date -> (year, month, day) of the proleptic Gregorian calendar
Civil(days) ==
    LET z   == days + 719468
        era == z \div 146097
        doe == z - era * 146097
        yoe == (doe - (doe \div 1460) + (doe \div 36524) - (doe \div 146096)) \div 365
        doy == doe - (365 * yoe + (yoe \div 4) - (yoe \div 100))
        mp  == (5 * doy + 2) \div 153
        d   == doy - ((153 * mp + 2) \div 5) + 1
        m   == IF mp < 10 THEN mp + 3 ELSE mp - 9
        y   == yoe + era * 400 + (IF m <= 2 THEN 1 ELSE 0)
    IN  [year |-> y, month |-> m, day |-> d]

MonthName ==
    << <<74, 97, 110, 117, 97, 114, 121>>,
       <<70, 101, 98, 114, 117, 97, 114, 121>>,
       <<77, 97, 114, 99, 104>>,
       <<65, 112, 114, 105, 108>>,
       <<77, 97, 121>>,
       <<74, 117, 110, 101>>,
       <<74, 117, 108, 121>>,
       <<65, 117, 103, 117, 115, 116>>,
       <<83, 101, 112, 116, 101, 109, 98, 101, 114>>,
       <<79, 99, 116, 111, 98, 101, 114>>,
       <<78, 111, 118, 101, 109, 98, 101, 114>>,
       <<68, 101, 99, 101, 109, 98, 101, 114>> >>

\* d.strftime('%Y-%m-%d')
StrftimeYmd(d) ==
    LET c == Civil(d) IN
        Pad(c.year, 4) \o << 45 >> \o Pad(c.month, 2) \o << 45 >> \o Pad(c.day, 2)

\* d.strftime('%B %d, %Y')
StrftimeBdY(d) ==
    LET c == Civil(d) IN
        MonthName[c.month] \o << 32 >> \o Pad(c.day, 2) \o << 44, 32 >>
            \o Pad(c.year, 4)

\* datetime.now().date() - timedelta(days=1)
Yesterday(now) == now - 1

\* ---------------------------------------------------------- the csv module

\* csv.writer (the excel dialect, QUOTE_MINIMAL) on one field: None is written
\* as the empty string; a field holding the delimiter, the quote character or
\* a character of the line terminator is quoted, its quotes doubled.
NeedsQuote(f) == \E i \in 1..Len(f) : f[i] \in {44, 34, 13, 10}

RECURSIVE DoubleQuotes(_, _)
DoubleQuotes(f, i) ==
    IF i > Len(f) THEN << >>
    ELSE (IF f[i] = 34 THEN << 34, 34 >> ELSE << f[i] >>) \o DoubleQuotes(f, i + 1)

CsvField(v) ==
    LET f == IF v = None THEN << >> ELSE v IN
        IF NeedsQuote(f) THEN << 34 >> \o DoubleQuotes(f, 1) \o << 34 >> ELSE f

\* csv_writer.writerow(row): the fields joined by ',' and ended by '\r\n'
RECURSIVE JoinFields(_, _)
JoinFields(row, i) ==
    IF i > Len(row) THEN << >>
    ELSE (IF i > 1 THEN << 44 >> ELSE << >>) \o CsvField(row[i])
             \o JoinFields(row, i + 1)

writerow(row) == JoinFields(row, 1) \o << 13, 10 >>

\* csv_writer.writerows(rows)
RECURSIVE writerows(_)
writerows(rows) ==
    IF rows = << >> THEN << >> ELSE writerow(Head(rows)) \o writerows(Tail(rows))

\* ------------------------------------------------------ save_results_to_csv

HeaderRow == << <<85, 82, 76>>, <<76, 97, 115, 116, 32, 77, 111, 100, 105, 102, 105, 101, 100>> >>

\* os.path.join(output_dir, f"{date_to_check.strftime('%Y-%m-%d')}.csv")
output_file(output_dir, date_to_check) ==
    output_dir \o << 47 >> \o StrftimeYmd(date_to_check) \o <<46, 99, 115, 118>>

\* CsvContent had the file been opened with 'a': the rows follow the old content.
CsvContentAppended(old, rows) == old \o Encode(writerow(HeaderRow) \o writerows(rows))

\* What open(output_file, 'w', newline='', encoding='utf-8') and the two
\* writes leave in the file: the old content is dropped.
CsvContent(old, rows) == Encode(writerow(HeaderRow) \o writerows(rows))

\* The call: the file system after it, the path returned, the records logged.
save_results_to_csv(fs, rows, output_dir, date_to_check) ==
    LET path == output_file(output_dir, date_to_check)
        old  == IF path \in DOMAIN fs THEN fs[path] ELSE << >>
    IN  [files |-> [p \in DOMAIN fs \cup {path} |->
                        IF p = path THEN CsvContent(old, rows) ELSE fs[p]],
         path  |-> path,
         log   |-> << "info: crawl complete, found entries", "info: results saved" >>]

\* --------------------------------------------------- post_update_to_bluesky

PostByteLimit == 300
EllipsisBytes == 3

first_url(urls) == urls[1][1]

num_others(urls) == Len(urls) - 1

update_date_str(now) == StrftimeBdY(Yesterday(now))

\* os.path.basename(path): what follows the last '/'
RECURSIVE Basename(_)
Basename(path) ==
    IF path = << >> \/ path[Len(path)] = 47 THEN << >>
    ELSE Basename(SubSeq(path, 1, Len(path) - 1)) \o << path[Len(path)] >>

results_link_in_repo(path, cfg) ==
    <<104, 116, 116, 112, 115, 58, 47, 47, 103, 105, 116, 104, 117, 98, 46, 99, 111, 109, 47>>
        \o cfg.repo_owner_and_name \o <<47, 98, 108, 111, 98, 47, 109, 97, 105, 110, 47>>
        \o cfg.output_dir \o << 47 >> \o Basename(path)

\* base_text with the singular form forgotten.
base_text_always_plural(others) ==
    <<32, 97, 110, 100, 32>> \o Str(others)
        \o <<32, 111, 116, 104, 101, 114, 115, 32, 119, 101, 114, 101>>

\* " was" or f" and {num_others} others were"
base_text(others) ==
    IF others = 0 THEN <<32, 119, 97, 115>>
    ELSE <<32, 97, 110, 100, 32>> \o Str(others)
             \o <<32, 111, 116, 104, 101, 114, 115, 32, 119, 101, 114, 101>>

\* full_post_template after its "{url_display}" placeholder
TemplateTail(urls, path, cfg, now) ==
    base_text(num_others(urls))
        \o <<32, 117, 112, 100, 97, 116, 101, 100, 32, 111, 110, 32>>
        \o update_date_str(now) \o <<46, 10, 10>>
        \o <<83, 101, 101, 32, 97, 108, 108, 32, 117, 112, 100, 97, 116, 101, 115, 58, 32>>
        \o results_link_in_repo(path, cfg) \o << 32 >> \o cfg.hashtag

\* full_post_template.format(url_display=display)
Format(tail, display) == display \o tail

overhead_bytes(tail) == Len(Encode(Format(tail, << >>)))

allowed_url_bytes(overhead) == PostByteLimit - overhead - EllipsisBytes

\* The while loop: drop the last byte until the bytes decode.
RECURSIVE TrimUntilDecodes(_)
TrimUntilDecodes(truncated_bytes) ==
    IF Decodes(truncated_bytes)
    THEN Decode(truncated_bytes) \o <<46, 46, 46>>
    ELSE TrimUntilDecodes(SubSeq(truncated_bytes, 1, Len(truncated_bytes) - 1))

first_url_display(url, allowed) ==
    LET first_url_bytes == Encode(url) IN
        IF Len(first_url_bytes) > allowed
        THEN TrimUntilDecodes(SliceTo(first_url_bytes, allowed))
        ELSE url

\* s.lstrip('#')
RECURSIVE Lstrip(_)
Lstrip(s) == IF s # << >> /\ s[1] = 35 THEN Lstrip(Tail(s)) ELSE s

LinkFacet(display, url) ==
    [byteStart |-> 0, byteEnd |-> Len(Encode(display)), kind |-> "link", target |-> url]

RepoFacet(post_text, link, hashtag) ==
    LET repo_link_start_byte ==
            Len(Encode(post_text)) - Len(Encode(<< 32 >> \o link \o << 32 >> \o hashtag)) + 1
    IN  [byteStart |-> repo_link_start_byte,
         byteEnd   |-> repo_link_start_byte + Len(Encode(link)),
         kind |-> "link", target |-> link]

TagFacet(post_text, hashtag) ==
    LET tag_start_byte == Len(Encode(post_text)) - Len(Encode(hashtag)) IN
        [byteStart |-> tag_start_byte,
         byteEnd   |-> tag_start_byte + Len(Encode(hashtag)),
         kind |-> "tag", target |-> Lstrip(hashtag)]

\* The arguments of client.send_post
PostDraft(urls, path, cfg, now) ==
    LET tail      == TemplateTail(urls, path, cfg, now)
        display   == first_url_display(first_url(urls),
                                       allowed_url_bytes(overhead_bytes(tail)))
        post_text == Format(tail, display)
        link      == results_link_in_repo(path, cfg)
    IN  [text   |-> post_text,
         facets |-> << LinkFacet(display, first_url(urls)),
                       RepoFacet(post_text, link, cfg.hashtag),
                       TagFacet(post_text, cfg.hashtag) >>]

\* The call: every exception is caught and logged.  login may fail, a first
\* URL of None (an empty <loc>) has no encode, send_post may fail.
post_update_to_bluesky(urls, path, cfg, now, bluesky) ==
    IF bluesky = "login_fails" \/ urls = << >> \/ first_url(urls) = None
    THEN [sent |-> << >>, log |-> << "error: failed to post" >>]
    ELSE [sent |-> << PostDraft(urls, path, cfg, now) >>,
          log  |-> IF bluesky = "send_fails" THEN << "error: failed to post" >>
                                             ELSE << "info: posted" >>]

\* -------------------------------------------------------------------- main

NoException == "none"

OutputDir == <<100, 97, 105, 108, 121, 95, 117, 112, 100, 97, 116, 101, 115>>
Mapoli == <<35, 109, 97, 112, 111, 108, 105>>

\* main's config dict, built from the environment and the clock
MainConfig(env, now) ==
    [sitemap_index_url   |-> "https://www.mass.gov/sitemap.xml",
     date_to_check       |-> Yesterday(now),
     output_dir          |-> OutputDir,
     handle              |-> env.BLUESKY_HANDLE,
     app_password        |-> env.BLUESKY_APP_PASSWORD,
     repo_owner_and_name |-> env.GITHUB_REPOSITORY,
     hashtag             |-> Mapoli]

\* all([config["handle"], config["app_password"], config["repo_owner_and_name"]])
PublishConfigured(cfg) ==
    Truthy(cfg.handle) /\ Truthy(cfg.app_password) /\ Truthy(cfg.repo_owner_and_name)

\* Midnight passes while the run is under way.
Midnight ==
    /\ pc \notin {"done", "crashed"}
    /\ today - (config.date_to_check + 1) < MaxMidnights
    /\ today' = today + 1
    /\ UNCHANGED << pc, environ, web, config, sitemap_urls, requested, found_urls,
                    csv_filepath, files, sent, log, exc >>

\* fetch_updated_urls, the outer try up to the loop: the index is requested
\* and parsed.  A RequestException (no answer, or an HTTP error status) is
\* caught, logged as fatal and [] returned; ET.ParseError is not a
\* RequestException and leaves fetch_updated_urls and main.
FetchIndex ==
    /\ pc = "fetch_index"
    /\ requested' = Append(requested, config.sitemap_index_url)
    /\ IF web.index \in {"neterr", "httperr"}
       THEN /\ log' = log \o << "info: starting crawl", "critical: could not fetch index" >>
            /\ pc' = "fetched"
            /\ UNCHANGED << sitemap_urls, exc >>
       ELSE IF web.index = "malformed"
       THEN /\ log' = Append(log, "info: starting crawl")
            /\ exc' = "ParseError"
            /\ pc' = "crashed"
            /\ UNCHANGED sitemap_urls
       ELSE /\ sitemap_urls' = [i \in 1..Len(web.children) |-> web.children[i].url]
            /\ log' = log \o << "info: starting crawl", "info: found sitemaps" >>
            /\ pc' = "for_sitemap"
            /\ UNCHANGED exc
    /\ found_urls' = << >>
    /\ UNCHANGED << today, environ, web, config, csv_filepath, files, sent >>

\* for sitemap_url in sitemaps_urls: the name sitemaps_urls is bound nowhere
\* (the list is sitemap_urls), so evaluating it raises NameError before any
\* child is requested.  NameError is not a RequestException: it leaves
\* fetch_updated_urls and main, and the loop body never runs.
ForSitemap ==
    /\ pc = "for_sitemap"
    /\ exc' = "NameError"
    /\ pc' = "crashed"
    /\ UNCHANGED << today, environ, web, config, sitemap_urls, requested, found_urls,
                    csv_filepath, files, sent, log >>

\* main after fetch_updated_urls returned: nothing found ends the run; else
\* the record is saved, and the post is sent if the configuration is complete.
MainAfterFetch ==
    /\ pc = "fetched"
    /\ IF found_urls = << >>
       THEN /\ log' = Append(log, "info: no pages found")
            /\ UNCHANGED << csv_filepath, files, sent >>
       ELSE LET saved == save_results_to_csv(files, found_urls, config.output_dir,
                                             config.date_to_check)
                post  == post_update_to_bluesky(found_urls, saved.path, config, today,
                                                web.bluesky)
            IN  /\ files' = saved.files
                /\ csv_filepath' = saved.path
                /\ IF PublishConfigured(config)
                   THEN /\ sent' = sent \o post.sent
                        /\ log' = log \o saved.log \o post.log
                   ELSE /\ log' = log \o saved.log \o << "warning: skipping post" >>
                        /\ UNCHANGED sent
    /\ pc' = "done"
    /\ UNCHANGED << today, environ, web, config, sitemap_urls, requested, found_urls, exc >>

\* ------------------------------------------------- what a run may meet

EnvHandles == {None, <<104, 97, 110, 100, 108, 101>>}
EnvPasswords == {None, <<115, 101, 99, 114, 101, 116>>}
EnvRepos == {None, << >>, <<111, 47, 114>>}
BlueskyOutcomes == {"ok", "login_fails", "send_fails"}

TimeSuffix == <<84, 48, 57, 58, 49, 53, 58, 48, 48, 90>>

\* <lastmod> texts: the target date alone, with a time of day, the day before
\* with a time of day, text that is no date; None is an entry without <lastmod>.
Lastmods(target) ==
    {StrftimeYmd(target), StrftimeYmd(target) \o TimeSuffix,
     StrftimeYmd(target - 1) \o TimeSuffix, <<110, 47, 97>>, None}

SeqsUpTo(S, n) == UNION {[1..k -> S] : k \in 0..n}

ChildUrl(i) == << 99, 48 + i >>
Loc(i, j) == << 96 + i, 48 + j >>

\* The child sitemaps: each answers with its <url> entries, fails as a request
\* or is not XML.
ChildAnswers(target) ==
    [status : {"ok"}, lastmods : SeqsUpTo(Lastmods(target), MaxEntries)]
        \cup [status : {"neterr", "malformed"}, lastmods : {<< >>}]

Children(answers) ==
    [i \in 1..Len(answers) |->
        [url     |-> ChildUrl(i),
         status  |-> answers[i].status,
         entries |-> [j \in 1..Len(answers[i].lastmods) |->
                         << Loc(i, j), answers[i].lastmods[j] >>]]]

Webs(target) ==
    [index : {"neterr", "httperr", "malformed"}, children : {<< >>},
     bluesky : BlueskyOutcomes]
        \cup {[index |-> "ok", children |-> Children(a), bluesky |-> b] :
                 a \in SeqsUpTo(ChildAnswers(target), MaxChildren),
                 b \in BlueskyOutcomes}

\* The run starts: the environment is read and config built (main, lines
\* 159-171); nothing is requested, stored or sent yet.
Init ==
    /\ pc = "fetch_index"
    /\ today = FirstDay
    /\ environ \in [BLUESKY_HANDLE : EnvHandles, BLUESKY_APP_PASSWORD : EnvPasswords,
                    GITHUB_REPOSITORY : EnvRepos]
    /\ web \in Webs(Yesterday(today))
    /\ config = MainConfig(environ, today)
    /\ sitemap_urls = << >>
    /\ requested = << >>
    /\ found_urls = << >>
    /\ csv_filepath = None
    /\ files = << >>
    /\ sent = << >>
    /\ log = << >>
    /\ exc = NoException

Next == Midnight \/ FetchIndex \/ ForSitemap \/ MainAfterFetch

Spec == Init /\ [][Next]_vars

\* ------------------------------------- post_update_to_bluesky on its inputs

UrlAlphabet == {97, 233, 128512}
PageUrls == SeqsUpTo(UrlAlphabet, MaxUrlLen) \cup {None}
Hashtags == {Mapoli, << >>, <<35, 233>>}
RepoNames ==
    {Repeat(114, k) : k \in {ShortRepoLen} \cup (MinRepoLen..MaxRepoLen)}
MatchCounts == {1, 2, MaxMatches}

\* A match set of n entries for the target date that starts with url.
MatchSet(url, n, target) ==
    [i \in 1..n |->
        IF i = 1 THEN << url, StrftimeYmd(target) >>
                 ELSE << Loc(1, 1), StrftimeYmd(target) \o TimeSuffix >>]

\* post_update_to_bluesky is called as main calls it (line 186): with a match
\* set that is not empty, the path of its saved record and a config whose
\* publish values are set.  The repository name and the hashtag are the
\* function's inputs through config, and range over RepoNames and Hashtags.
InitCompose ==
    /\ pc = "post"
    /\ today = FirstDay
    /\ \E repo \in RepoNames, tag \in Hashtags :
          /\ environ = [BLUESKY_HANDLE       |-> <<104, 97, 110, 100, 108, 101>>,
                        BLUESKY_APP_PASSWORD |-> <<115, 101, 99, 114, 101, 116>>,
                        GITHUB_REPOSITORY    |-> repo]
          /\ config = [MainConfig(environ, today) EXCEPT !.hashtag = tag]
    /\ web \in [index : {"ok"}, children : {<< >>}, bluesky : BlueskyOutcomes]
    /\ \E url \in PageUrls, n \in MatchCounts :
          found_urls = MatchSet(url, n, config.date_to_check)
    /\ LET saved == save_results_to_csv(<< >>, found_urls, config.output_dir,
                                        config.date_to_check)
       IN  /\ files = saved.files
           /\ csv_filepath = saved.path
    /\ sitemap_urls = << >>
    /\ requested = << >>
    /\ sent = << >>
    /\ log = << >>
    /\ exc = NoException

PostUpdateToBluesky ==
    /\ pc = "post"
    /\ LET post == post_update_to_bluesky(found_urls, csv_filepath, config, today,
                                          web.bluesky)
       IN  /\ sent' = sent \o post.sent
           /\ log' = log \o post.log
    /\ pc' = "done"
    /\ UNCHANGED << today, environ, web, config, sitemap_urls, requested, found_urls,
                    csv_filepath, files, exc >>

NextCompose == Midnight \/ PostUpdateToBluesky

SpecCompose == InitCompose /\ [][NextCompose]_vars

\* ---------------------------------------- save_results_to_csv on its inputs

CsvUrls == {None, <<97>>, <<97, 44, 98>>, <<34, 97>>, <<233, 10, 98>>}

Rows(target) ==
    SeqsUpTo({<< u, l >> : u \in CsvUrls,
                          l \in {StrftimeYmd(target), StrftimeYmd(target) \o TimeSuffix}},
             MaxRows) \ {<< >>}

\* What an earlier run of the same day left in the file.
OldContent == Encode(writerow(HeaderRow) \o writerow(<< <<111, 108, 100>>, <<111, 108, 100>> >>)
                         \o writerow(<< <<111, 108, 100>>, <<111, 108, 100>> >>)
                         \o writerow(<< <<111, 108, 100>>, <<111, 108, 100>> >>))

\* main is about to call save_results_to_csv (line 180) with a match set that
\* is not empty; the output directory is empty, or holds the files that runs
\* of the day before and of earlier today left.
InitSave ==
    /\ pc = "save"
    /\ today = FirstDay
    /\ environ \in [BLUESKY_HANDLE : EnvHandles, BLUESKY_APP_PASSWORD : {None},
                    GITHUB_REPOSITORY : {<<111, 47, 114>>}]
    /\ config = MainConfig(environ, today)
    /\ web = [index |-> "ok", children |-> << >>, bluesky |-> "ok"]
    /\ found_urls \in Rows(config.date_to_check)
    /\ \E paths \in {{}, {output_file(config.output_dir, config.date_to_check),
                          output_file(config.output_dir, config.date_to_check - 1)}} :
          files = [p \in paths |-> OldContent]
    /\ csv_filepath = None
    /\ sitemap_urls = << >>
    /\ requested = << >>
    /\ sent = << >>
    /\ log = << >>
    /\ exc = NoException

SaveResultsToCsv ==
    /\ pc = "save"
    /\ LET saved == save_results_to_csv(files, found_urls, config.output_dir,
                                        config.date_to_check)
       IN  /\ files' = saved.files
           /\ csv_filepath' = saved.path
           /\ log' = log \o saved.log
    /\ pc' = "done"
    /\ UNCHANGED << today, environ, web, config, sitemap_urls, requested, found_urls,
                    sent, exc >>

NextSave == SaveResultsToCsv

SpecSave == InitSave /\ [][NextSave]_vars

\* =================================================================== claims

Terminated == pc \in {"done", "crashed"}

\* The bytes of b from offset start up to, not including, offset end.
ByteRange(b, start, end) == SubSeq(b, start + 1, end)

\* The post's template after the display URL, as the inputs of the call give it.
TailOfRun == TemplateTail(found_urls, csv_filepath, config, today)

\* The display URL of a post sent: its text without the template's tail.
DisplayOf(draft) == SubSeq(draft.text, 1, Len(draft.text) - Len(TailOfRun))

Ellipsis == <<46, 46, 46>>

\* ----- C1
\* C1: every text handed to send_post has a UTF-8 encoding of at most 300
\* bytes, whatever the match set, the results link and the hashtag.
C1_TextWithinByteLimit ==
    \A i \in 1..Len(sent) : Len(Encode(sent[i].text)) <= PostByteLimit

\* ----- C2
FacetInText(f, bytes) == 0 <= f.byteStart /\ f.byteStart < f.byteEnd /\ f.byteEnd <= Len(bytes)

Disjoint(f, g) == f.byteEnd <= g.byteStart \/ g.byteEnd <= f.byteStart

FacetsAnchored(draft) ==
    LET bytes == Encode(draft.text)
        f     == draft.facets
        link  == results_link_in_repo(csv_filepath, config)
    IN  /\ Len(f) = 3
        /\ \A k \in 1..3 : FacetInText(f[k], bytes)
        /\ Disjoint(f[1], f[2]) /\ Disjoint(f[1], f[3]) /\ Disjoint(f[2], f[3])
        /\ ByteRange(bytes, f[1].byteStart, f[1].byteEnd) = Encode(DisplayOf(draft))
        /\ ByteRange(bytes, f[2].byteStart, f[2].byteEnd) = Encode(link)
        /\ ByteRange(bytes, f[3].byteStart, f[3].byteEnd) = Encode(config.hashtag)

\* C2: each of the three facets of a post lies within the final text with
\* byteStart < byteEnd, the three ranges do not overlap, and the bytes of each
\* range are the display URL, the results link and the hashtag, for every
\* first URL and hashtag, the empty ones included.
C2_FacetsValid == \A i \in 1..Len(sent) : FacetsAnchored(sent[i])

\* ----- C7
\* The prefix of p bytes of the URL is one that truncation may keep: it fits
\* in budget bytes, it decodes, and no longer prefix does both.
LongestPrefix(bytes, p, budget) ==
    /\ p <= budget
    /\ Decodes(SubSeq(bytes, 1, p))
    /\ \A q \in (p + 1)..Len(bytes) : ~(q <= budget /\ Decodes(SubSeq(bytes, 1, q)))

TruncationAsStated(draft) ==
    LET url      == first_url(found_urls)
        bytes    == Encode(url)
        overhead == Len(Encode(TailOfRun))
        display  == DisplayOf(draft)
    IN  IF overhead + Len(bytes) + EllipsisBytes > PostByteLimit
        THEN /\ \E p \in 0..Len(bytes) :
                   /\ LongestPrefix(bytes, p, PostByteLimit - overhead - EllipsisBytes)
                   /\ display = Decode(SubSeq(bytes, 1, p)) \o Ellipsis
             /\ draft.facets[1].target = url
             /\ draft.facets[1].byteStart = 0
             /\ draft.facets[1].byteEnd = Len(Encode(display))
        ELSE display = url

\* C7: when overhead + len(first URL) + 3 > 300 the display URL is '...'
\* after the longest prefix of the URL's bytes that is at most
\* 300 - overhead - 3 bytes long and decodes, the first facet targets the
\* whole URL over [0, len(display)); otherwise the display URL is the URL.
C7_TruncationToBudget == \A i \in 1..Len(sent) : TruncationAsStated(sent[i])

\* ----- C9
\* " was updated on", or " and {N-1} others were updated on"
OthersClause(n) ==
    (IF n = 1 THEN <<32, 119, 97, 115>>
     ELSE <<32, 97, 110, 100, 32>> \o Str(n - 1)
              \o <<32, 111, 116, 104, 101, 114, 115, 32, 119, 101, 114, 101>>)
        \o <<32, 117, 112, 100, 97, 116, 101, 100, 32, 111, 110>>

\* d is the URL, or whole characters of its start followed by '...'
IsDisplayOf(d, url) ==
    d = url \/ \E p \in 0..Len(url) : d = SubSeq(url, 1, p) \o Ellipsis

StartsWithHeadline(text, urls) ==
    \E k \in 0..Len(text) :
        /\ IsDisplayOf(SubSeq(text, 1, k), first_url(urls))
        /\ SubSeq(text, k + 1, k + Len(OthersClause(Len(urls)))) = OthersClause(Len(urls))

\* C9: the text of a post for N matches starts with the display form of the
\* first match, followed by " was updated on" when N = 1 and by
\* " and {N-1} others were updated on" when N > 1.
C9_HeadlineNamesFirstAndCount ==
    \A i \in 1..Len(sent) : StartsWithHeadline(sent[i].text, found_urls)

\* A post for MaxMatches matches was sent, its first URL cut to fit.
C9_Witness ==
    /\ pc = "done"
    /\ sent # << >>
    /\ Len(found_urls) = MaxMatches
    /\ DisplayOf(sent[1]) # first_url(found_urls)
    /\ Len(DisplayOf(sent[1])) > Len(Ellipsis)
    /\ Len(Encode(sent[1].text)) <= PostByteLimit

\* ----- C10
Contains(text, pat) ==
    \E k \in 0..(Len(text) - Len(pat)) : SubSeq(text, k + 1, k + Len(pat)) = pat

\* C10: the date a post names after "updated on" is the target date the
\* entries were filtered by, which also names the record the post links to,
\* even when midnight passed since the run started.
C10_PostNamesTargetDate ==
    \A i \in 1..Len(sent) :
        /\ Contains(sent[i].text,
                    <<32, 117, 112, 100, 97, 116, 101, 100, 32, 111, 110, 32>>
                        \o StrftimeBdY(config.date_to_check) \o <<46, 10, 10>>)
        /\ Contains(sent[i].text,
                    << 47 >> \o StrftimeYmd(config.date_to_check) \o <<46, 99, 115, 118, 32>>)

\* ----- C8
\* The rows a reader of the excel dialect finds in text: fields end at ',',
\* rows at '\r\n'; a field that starts with '"' runs to its closing '"', with
\* '""' standing for one quote.
Least(S) == CHOOSE k \in S : \A j \in S : k <= j

QuotesIn(text, from, to) == Cardinality({k \in from..to : text[k] = 34})

\* Where the field that starts at i ends: the offset of its delimiter, or
\* Len(text) + 1.
FieldStop(text, i) ==
    LET after ==
            IF i <= Len(text) /\ text[i] = 34
            THEN Least({k \in (i + 1)..(Len(text) + 1) :
                          \/ k = Len(text) + 1
                          \/ /\ text[k] = 34
                             /\ QuotesIn(text, i + 1, k) % 2 = 1
                             /\ (k = Len(text) \/ text[k + 1] # 34)}) + 1
            ELSE i
    IN  Least({k \in after..(Len(text) + 1) :
                  k = Len(text) + 1 \/ text[k] \in {44, 13, 10}})

\* s with every '""' made '"'
Undouble(t) ==
    LET keep == {k \in 1..Len(t) : t[k] # 34 \/ QuotesIn(t, 1, k) % 2 = 1}
    IN  [n \in 1..Cardinality(keep) |->
            t[CHOOSE k \in keep : Cardinality({j \in keep : j <= k}) = n]]

FieldText(text, i, stop) ==
    IF i <= Len(text) /\ text[i] = 34
    THEN Undouble(SubSeq(text, i + 1, stop - 2))
    ELSE SubSeq(text, i, stop - 1)

RECURSIVE ReadCsv(_, _, _, _)
ReadCsv(text, i, row, rows) ==
    IF i > Len(text) /\ row = << >> THEN rows
    ELSE LET stop  == FieldStop(text, i)
             row2  == Append(row, FieldText(text, i, stop))
         IN  IF stop <= Len(text) /\ text[stop] = 44
             THEN ReadCsv(text, stop + 1, row2, rows)
             ELSE IF stop < Len(text) /\ text[stop] = 13 /\ text[stop + 1] = 10
             THEN ReadCsv(text, stop + 2, << >>, Append(rows, row2))
             ELSE ReadCsv(text, stop + 1, << >>, Append(rows, row2))

RowsOfFile(content) == ReadCsv(Decode(content), 1, << >>, << >>)

\* The match set as text: None is the empty field.
AsText(rows) ==
    [i \in 1..Len(rows) |->
        [j \in 1..Len(rows[i]) |-> IF rows[i][j] = None THEN << >> ELSE rows[i][j]]]

DayFile == output_file(config.output_dir, config.date_to_check)
DayBeforeFile == output_file(config.output_dir, config.date_to_check - 1)

\* C8: once save_results_to_csv has run, the file named after the target date
\* holds the header row (URL, Last Modified) and then one row per entry of the
\* match set, in the match set's order, and nothing of what it held before.
C8_RecordIsHeaderThenRows ==
    pc = "done" =>
        /\ csv_filepath = DayFile
        /\ DayFile \in DOMAIN files
        /\ Decodes(files[DayFile])
        /\ RowsOfFile(files[DayFile]) = << HeaderRow >> \o AsText(found_urls)

\* A match set of MaxRows entries, one with a line break in its URL, was
\* saved over the file an earlier run of the day had left.
C8_Witness ==
    /\ pc = "done"
    /\ DayBeforeFile \in DOMAIN files
    /\ Len(found_urls) = MaxRows
    /\ \E i \in 1..Len(found_urls) : found_urls[i][1] = <<233, 10, 98>>

\* ----- the sitemap as the claims read it
\* The date part of a <lastmod> text: what precedes the first 'T'.
RECURSIVE DatePart(_)
DatePart(l) == IF l = << >> \/ l[1] = 84 THEN << >> ELSE << l[1] >> \o DatePart(Tail(l))

IsDateText(t) ==
    /\ Len(t) = 10
    /\ \A k \in 1..10 : IF k \in {5, 8} THEN t[k] = 45 ELSE t[k] \in 48..57

\* An entry with <loc> and <lastmod> whose date is the target date.
Matches(entry) ==
    /\ entry[2] # None
    /\ DatePart(entry[2]) = StrftimeYmd(config.date_to_check)

\* A child that answers and whose every <lastmod> is a date.
ChildSucceeds(child) ==
    /\ child.status = "ok"
    /\ \A j \in 1..Len(child.entries) :
          child.entries[j][2] # None => IsDateText(DatePart(child.entries[j][2]))

RECURSIVE MatchesOf(_, _)
MatchesOf(entries, j) ==
    IF j > Len(entries) THEN << >>
    ELSE (IF Matches(entries[j]) THEN << entries[j] >> ELSE << >>)
             \o MatchesOf(entries, j + 1)

\* The matches of the children that succeed, in encounter order.
RECURSIVE ExpectedFrom(_)
ExpectedFrom(i) ==
    IF i > Len(web.children) THEN << >>
    ELSE (IF ChildSucceeds(web.children[i])
          THEN MatchesOf(web.children[i].entries, 1) ELSE << >>) \o ExpectedFrom(i + 1)

ExpectedMatches == ExpectedFrom(1)

AllChildrenSucceed == \A i \in 1..Len(web.children) : ChildSucceeds(web.children[i])

WasRequested(url) == \E k \in 1..Len(requested) : requested[k] = url

\* ----- C3
\* C3: with the index fetched and parsed, a child sitemap that fails (request,
\* XML, or a <lastmod> that is no date) is skipped alone: the run's collection
\* ends without an exception, every child was requested, and the match set
\* holds the matches of the children that succeeded.
C3_FailingChildIsSkipped ==
    (Terminated /\ web.index = "ok" /\ ~AllChildrenSucceed) =>
        /\ exc = NoException
        /\ \A i \in 1..Len(web.children) : WasRequested(web.children[i].url)
        /\ found_urls = ExpectedMatches

\* ----- C4
\* C4: no exception leaves main, whatever the external calls do; a run whose
\* index cannot be fetched or parsed ends as a logged fatal abort with nothing
\* saved and nothing sent.
C4_NoExceptionLeavesMain ==
    /\ exc = NoException
    /\ (Terminated /\ web.index # "ok") =>
          /\ pc = "done"
          /\ \E k \in 1..Len(log) : log[k] = "critical: could not fetch index"
          /\ files = << >>
          /\ sent = << >>

\* ----- C5
\* C5: when every fetch succeeds, the match set returned holds exactly the
\* entries with <loc> and <lastmod> whose date part is the target date, each
\* once, children in index order and entries in document order.
C5_ExactlyTheTargetDateEntries ==
    (Terminated /\ web.index = "ok" /\ AllChildrenSucceed) =>
        /\ exc = NoException
        /\ found_urls = ExpectedMatches

\* ----- C6
\* C6: send_post is called at most once, and only with a match set that is
\* not empty, its record saved and the publish configuration complete; a run
\* without matches saves and sends nothing; a run with matches and an
\* incomplete publish configuration ends with the record saved and nothing
\* sent.
C6_PublishOnceAfterPersist ==
    /\ Len(sent) <= 1
    /\ sent # << >> =>
          found_urls # << >> /\ DayFile \in DOMAIN files /\ PublishConfigured(config)
    /\ (Terminated /\ found_urls = << >> /\ exc = NoException) =>
          files = << >> /\ sent = << >>
    /\ (Terminated /\ web.index = "ok" /\ AllChildrenSucceed /\ ExpectedMatches # << >>
            /\ ~PublishConfigured(config)) =>
          pc = "done" /\ DayFile \in DOMAIN files /\ sent = << >>

====
